---- MODULE Spec2Model ----
(***************************************************************************)
(* A model of minerva's DataStore (src/minerva/device/data_store.cpp):     *)
(* the id -> DataState table, the buffers it owns, the store-wide mutex    *)
(* and the caller threads.                                                 *)
(*                                                                         *)
(* A CHECK that fails terminates the process: `aborted` becomes TRUE and   *)
(* no action is enabled afterwards.  An operation that takes the mutex is  *)
(* two steps of its thread: Begin (the lock_guard at its top is            *)
(* constructed) and the body (everything up to the return, where the       *)
(* lock_guard is destroyed); which operation and arguments the thread is   *)
(* in shows at the body step.  GetTotalBytes takes no lock and is one step *)
(* per record it visits.                                                   *)
(***************************************************************************)
EXTENDS Integers, Sequences, FiniteSets, TLC

\* ---- bounds of the model ----
MaxLen == 1      \* the longest buffer a caller asks for
MaxRc == 2       \* the largest reference count a caller passes or reaches
MaxAmount == 1   \* the largest amount a caller increments or decrements by
MaxAllocs == 2   \* the number of buffers the allocators hand out in one run
MaxOps == 2      \* scenario: the number of adjustments each thread makes to its id
MaxReaders == 1  \* the number of threads inside GetTotalBytes at once
Ids == {1, 2}
Threads == {1, 2}

\* ---- program constants ----
NULL == 0
SizeofFloat == 4
CPU == "CPU"
GPU == "GPU"
MemTypes == {CPU, GPU}

NoThread == 0
Lengths == 0..MaxLen
RcVals == -1..MaxRc
Amounts == -1..MaxAmount

VARIABLES
  data_states_,   \* the table: a function from the ids present to their DataState
  heap,           \* every buffer ever allocated; a pointer is an index into it
  access_mutex_,  \* the thread holding the store's mutex, or NoThread
  pc,             \* per thread: "idle", "cs" (inside a locked operation), "tb"
  tb,             \* per thread: the locals of a running GetTotalBytes
  aborted,        \* a CHECK failed: the process is gone
  HAS_CUDA,       \* the build: TRUE when compiled with HAS_CUDA
  last,           \* history: the operation that has just finished, its result and the
                  \* table before it; forgotten at the next step of any thread
  prog            \* the caller threads' program in the owner-only scenario

vars == <<data_states_, heap, access_mutex_, pc, tb, aborted, HAS_CUDA,
          last, prog>>

\* ---- DataState ----
\* DataState::DataState(): length 0, reference_count 0, every data_ptrs slot 0.
DataState == [length |-> 0, reference_count |-> 0, data_ptrs |-> [m \in MemTypes |-> NULL]]

\* (mutant) the validity check left out
CheckValidity_Always(id) == TRUE

\* std::map::find(id) != end()
CheckValidity(id) == id \in DOMAIN data_states_

\* data_states_[id]: operator[] yields the record, default-constructed when absent ...
Subscript(id) == IF id \in DOMAIN data_states_ THEN data_states_[id] ELSE DataState

\* ... and the table afterwards holds a record for id (here: ds written back).
Store(id, ds) == [i \in (DOMAIN data_states_) \cup {id} |-> IF i = id THEN ds ELSE data_states_[i]]

\* data_states_.erase(id) on a given table
\* (mutant) a range erase: every record up to and including id removed
Erase_UpTo(states, id) == [i \in {j \in DOMAIN states : j > id} |-> states[i]]

Erase(states, id) == [i \in (DOMAIN states) \ {id} |-> states[i]]

\* ---- the allocators ----
\* A buffer: its element count, its contents, how often it was released.
Buffer(n, v) == [len |-> n, data |-> [i \in 1..n |-> v], frees |-> 0]

\* calloc(length, sizeof(float)): a fresh zero-filled buffer, or a null pointer (no
\* memory; for length 0 the C library may also return a null pointer by definition).
CallocResults(n) == {NULL, Len(heap) + 1}

\* cudaMalloc(&p, length * sizeof(float)) returning cudaSuccess: a fresh buffer, or for
\* a size of 0 possibly a null pointer.  Its contents are not defined ("?").
CudaMallocResults(n) == IF n = 0 THEN {NULL, Len(heap) + 1} ELSE {Len(heap) + 1}

\* free(ptr) / cudaFree(ptr) on a given heap: the contents are gone
Free(h, p) == [h EXCEPT ![p] = [len |-> 0, data |-> <<>>, frees |-> h[p].frees + 1]]

\* ---- calls ----
NoCall == [op |-> "none", id |-> 0, type |-> CPU, length |-> 0, rc |-> 0, amount |-> 0]
Call(op, id, type, length, rc, amount) ==
  [op |-> op, id |-> id, type |-> type, length |-> length, rc |-> rc, amount |-> amount]

NoTb == [type |-> CPU, pos |-> 0, total |-> 0, raced |-> FALSE]
NoProg == [stage |-> "off", expected |-> 0, left |-> 0]

\* ---- how an operation ends ----
NoLast == [call |-> NoCall, outcome |-> "none", val |-> 0,
           pre |-> [i \in {} |-> DataState], raced |-> FALSE]

\* a running GetTotalBytes has raced once another thread writes to the table
MarkRaced == [u \in Threads |-> IF pc[u] = "tb" THEN [tb[u] EXCEPT !.raced = TRUE] ELSE tb[u]]

\* return: the lock_guard's destructor unlocks.
Return(t, c, val, wrote) ==
  /\ pc' = [pc EXCEPT ![t] = "idle"]
  /\ access_mutex_' = NoThread
  /\ last' = [call |-> c, outcome |-> "return", val |-> val,
              pre |-> data_states_, raced |-> FALSE]
  /\ tb' = IF wrote THEN MarkRaced ELSE tb
  /\ UNCHANGED <<aborted, HAS_CUDA>>

\* a failed CHECK: the process terminates where it stands, and with it its threads
\* and the mutex they held.
Abort(t, c) ==
  /\ aborted' = TRUE
  /\ pc' = [u \in Threads |-> "dead"]
  /\ tb' = [u \in Threads |-> NoTb]
  /\ access_mutex_' = NoThread
  /\ last' = [call |-> c, outcome |-> "abort", val |-> 0,
              pre |-> data_states_, raced |-> FALSE]
  /\ UNCHANGED HAS_CUDA

\* (mutant) the body entered without waiting for the mutex
Begin_NoWait(t) ==
  /\ ~aborted
  /\ pc[t] = "idle"
  /\ access_mutex_' = t
  /\ pc' = [pc EXCEPT ![t] = "cs"]
  /\ last' = NoLast
  /\ UNCHANGED <<data_states_, heap, tb, aborted, HAS_CUDA>>

\* ---- Begin: lock_guard<mutex> lck(access_mutex_) ----
Begin(t) ==
  /\ ~aborted
  /\ pc[t] = "idle"
  /\ access_mutex_ = NoThread
  /\ access_mutex_' = t
  /\ pc' = [pc EXCEPT ![t] = "cs"]
  /\ last' = NoLast
  /\ UNCHANGED <<data_states_, heap, tb, aborted, HAS_CUDA>>

InBody(t) == ~aborted /\ pc[t] = "cs"

\* ---- the calls the threads make: arguments from small sets ----
CreateCalls ==
  {Call("CreateData", i, m, n, r, 0) : i \in Ids, m \in MemTypes, n \in Lengths, r \in RcVals}
GetCalls == {Call("GetData", i, m, 0, 0, 0) : i \in Ids, m \in MemTypes}
IncrCalls == {Call("IncrReferenceCount", i, CPU, 0, 0, a) : i \in Ids, a \in Amounts}
DecrCalls == {Call("DecrReferenceCount", i, CPU, 0, 0, a) : i \in Ids, a \in Amounts}
SetCalls == {Call("SetReferenceCount", i, CPU, 0, r, 0) : i \in Ids, r \in RcVals}
GetRefCalls == {Call("GetReferenceCount", i, CPU, 0, 0, 0) : i \in Ids}
FreeCalls == {Call("FreeData", i, CPU, 0, 0, 0) : i \in Ids}

\* the model keeps the counts it explores at or below MaxRc
CountFits(id, amount) ==
  id \in DOMAIN data_states_ => data_states_[id].reference_count - amount <= MaxRc

\* ---- CreateData ----
\* CHECK_EQ(ds.data_ptrs[type], 0)
SlotEmpty(ds, type) == ds.data_ptrs[type] = NULL

\* CHECK(ds.length == 0 || ds.length == length)
LengthMatches(ds, length) == ds.length = 0 \/ ds.length = length

\* (mutant) the count added to the record's instead of replacing it
CreateCount_Add(ds, rc) == ds.reference_count + rc

\* ds.reference_count = rc
CreateCount(ds, rc) == rc

\* the CHECKs of CreateData (and the CHECK(false) of a build without HAS_CUDA) on the
\* current table: would CreateData(id, type, length, _) abort?
CreateDataAborts(id, type, length) ==
  \/ ~SlotEmpty(Subscript(id), type)
  \/ ~LengthMatches(Subscript(id), length)
  \/ (type = GPU /\ ~HAS_CUDA)

CreateData(t, c) ==
  /\ InBody(t)
  /\ Len(heap) < MaxAllocs
  /\ LET ds0 == Subscript(c.id)
         ds1 == [ds0 EXCEPT !.length = c.length, !.reference_count = CreateCount(ds0, c.rc)]
         Allocated(p, v) ==
           /\ data_states_' = Store(c.id, [ds1 EXCEPT !.data_ptrs[c.type] = p])
           /\ heap' = IF p = NULL THEN heap
                      ELSE Append(heap, Buffer(c.length, v))
           /\ Return(t, c, "void", TRUE)
     IN  IF ~SlotEmpty(ds0, c.type) \/ ~LengthMatches(ds0, c.length)
         THEN /\ data_states_' = Store(c.id, ds0)
              /\ Abort(t, c)
              /\ UNCHANGED heap
         ELSE IF c.type = CPU
         THEN \E p \in CallocResults(c.length) : Allocated(p, 0)
         ELSE IF HAS_CUDA
         THEN \/ \E p \in CudaMallocResults(c.length) : Allocated(p, "?")
              \/ /\ data_states_' = Store(c.id, ds1)    \* cudaMalloc != cudaSuccess
                 /\ Abort(t, c)
                 /\ UNCHANGED heap
         ELSE /\ data_states_' = Store(c.id, ds1)       \* CHECK(false)
              /\ Abort(t, c)
              /\ UNCHANGED heap

\* (mutant) only the host buffer released
GCHeap_HostOnly(ds) ==
  IF ds.data_ptrs[CPU] # NULL THEN Free(heap, ds.data_ptrs[CPU]) ELSE heap

\* (mutant) the whole table cleared instead of the one record erased
GCTable_Clear(id) == [i \in {} |-> DataState]

\* (mutant) the buffers freed but the record left in the table
GCTable_Keep(id) == data_states_

\* ---- GC ----
\* free(ptr) for the host slot, cudaFree(ptr) for the device slot (HAS_CUDA builds),
\* then data_states_.erase(id).
GCHeap(ds) ==
  LET h1 == IF ds.data_ptrs[CPU] # NULL THEN Free(heap, ds.data_ptrs[CPU]) ELSE heap
  IN  IF HAS_CUDA /\ ds.data_ptrs[GPU] # NULL THEN Free(h1, ds.data_ptrs[GPU]) ELSE h1

GCTable(id) == Erase(data_states_, id)

GC(id) ==
  /\ heap' = GCHeap(Subscript(id))
  /\ data_states_' = GCTable(id)

\* ---- GetData ----
\* the two CHECKs of GetData on the current table: would GetData(id, type) abort?
GetDataAborts(id, type) == ~CheckValidity(id) \/ Subscript(id).data_ptrs[type] = NULL

GetData(t, c) ==
  /\ InBody(t)
  /\     IF ~CheckValidity(c.id)
         THEN Abort(t, c) /\ UNCHANGED data_states_
         ELSE /\ data_states_' = Store(c.id, Subscript(c.id))
              /\ IF Subscript(c.id).data_ptrs[c.type] = NULL
                 THEN Abort(t, c)
                 ELSE Return(t, c, Subscript(c.id).data_ptrs[c.type], FALSE)
  /\ UNCHANGED heap

\* ---- IncrReferenceCount / DecrReferenceCount ----
\* CHECK_GE(ds.reference_count, amount)
EnoughCount(rc, amount) == rc >= amount

\* (mutant) the amount added instead of subtracted
NewCount_Plus(rc, amount) == rc + amount

\* ds.reference_count -= amount
NewCount(rc, amount) == rc - amount

\* if (ds.reference_count == 0)
ReachedZero(rc) == rc = 0

DecrBody(t, c, amount) ==
      IF ~CheckValidity(c.id)
      THEN Abort(t, c) /\ UNCHANGED <<data_states_, heap>>
      ELSE LET ds == Subscript(c.id)
               n  == NewCount(ds.reference_count, amount)
           IN  IF ~EnoughCount(ds.reference_count, amount)
               THEN Abort(t, c) /\ UNCHANGED <<data_states_, heap>>
               ELSE IF ReachedZero(n)
               THEN GC(c.id) /\ Return(t, c, TRUE, TRUE)
               ELSE /\ data_states_' = Store(c.id, [ds EXCEPT !.reference_count = n])
                             /\ Return(t, c, FALSE, TRUE)
                    /\ UNCHANGED heap

DecrReferenceCount(t, c) ==
  /\ InBody(t)
  /\ CountFits(c.id, c.amount)
  /\ DecrBody(t, c, c.amount)

\* return DecrReferenceCount(id, -amount)
IncrReferenceCount(t, c) ==
  /\ InBody(t)
  /\ CountFits(c.id, -c.amount)
  /\ DecrBody(t, c, -c.amount)

\* ---- SetReferenceCount ----
\* (mutant) no check of the sign
ValidRc_Any(rc) == TRUE

\* CHECK_GE(rc, 0)
ValidRc(rc) == rc >= 0

SetReferenceCount(t, c) ==
  /\ InBody(t)
  /\     IF ~CheckValidity(c.id) \/ ~ValidRc(c.rc)
         THEN Abort(t, c) /\ UNCHANGED <<data_states_, heap>>
         ELSE IF ReachedZero(c.rc)
         THEN GC(c.id) /\ Return(t, c, TRUE, TRUE)
         ELSE /\ data_states_' = Store(c.id, [Subscript(c.id) EXCEPT !.reference_count = c.rc])
                 /\ Return(t, c, FALSE, TRUE)
              /\ UNCHANGED heap

\* ---- GetReferenceCount ----
\* the CHECK of GetReferenceCount on the current table
GetReferenceCountAborts(id) == ~CheckValidity(id)

GetReferenceCount(t, c) ==
  /\ InBody(t)
  /\ IF ~CheckValidity(c.id)
     THEN Abort(t, c)
     ELSE Return(t, c, Subscript(c.id).reference_count, FALSE)
  /\ UNCHANGED <<data_states_, heap>>

\* ---- FreeData ----
FreeData(t, c) ==
  /\ InBody(t)
  /\ IF ~CheckValidity(c.id)
     THEN Abort(t, c) /\ UNCHANGED <<data_states_, heap>>
     ELSE GC(c.id) /\ Return(t, c, "void", TRUE)

\* ---- GetTotalBytes: no lock; for (auto it : data_states_) ----
TBStart(t, m) ==
  /\ ~aborted
  /\ pc[t] = "idle"
  /\ Cardinality({u \in Threads : pc[u] = "tb"}) < MaxReaders
  /\ last' = NoLast
  /\ pc' = [pc EXCEPT ![t] = "tb"]
  /\ tb' = [tb EXCEPT ![t] = [type |-> m, pos |-> 0, total |-> 0, raced |-> FALSE]]
  /\ UNCHANGED <<data_states_, heap, access_mutex_, aborted, HAS_CUDA>>

\* the records the iterator has still to visit
TBRest(t) == {i \in DOMAIN data_states_ : i > tb[t].pos}

\* if (ds.data_ptrs[memtype]) total_bytes += ds.length * sizeof(float)
TBAdd(ds, m) == IF ds.data_ptrs[m] # NULL THEN ds.length * SizeofFloat ELSE 0

TBStep(t) ==
  /\ ~aborted
  /\ pc[t] = "tb"
  /\ TBRest(t) # {}
  /\ LET i == CHOOSE j \in TBRest(t) : \A k \in TBRest(t) : j <= k
     IN  tb' = [tb EXCEPT ![t].pos = i,
                          ![t].total = @ + TBAdd(data_states_[i], tb[t].type)]
  /\ last' = NoLast
  /\ UNCHANGED <<data_states_, heap, access_mutex_, pc, aborted, HAS_CUDA>>

TBReturn(t) ==
  /\ ~aborted
  /\ pc[t] = "tb"
  /\ TBRest(t) = {}
  /\ pc' = [pc EXCEPT ![t] = "idle"]
  /\ tb' = [tb EXCEPT ![t] = NoTb]
  /\ last' = [call |-> Call("GetTotalBytes", 0, tb[t].type, 0, 0, 0),
              outcome |-> "return", val |-> tb[t].total,
              pre |-> data_states_, raced |-> tb[t].raced]
  /\ UNCHANGED <<data_states_, heap, access_mutex_, aborted, HAS_CUDA>>

\* ---- the store after construction, used by any number of caller threads ----
EmptyTable == [i \in {} |-> DataState]

InitStore ==
  /\ data_states_ = EmptyTable
  /\ heap = <<>>
  /\ access_mutex_ = NoThread
  /\ pc = [t \in Threads |-> "idle"]
  /\ tb = [t \in Threads |-> NoTb]
  /\ aborted = FALSE
  /\ HAS_CUDA \in BOOLEAN
  /\ last = NoLast

Init ==
  /\ InitStore
  /\ prog = [t \in Threads |-> NoProg]

Next ==
  \/ \E t \in Threads : Begin(t) /\ UNCHANGED prog
  \/ \E t \in Threads, c \in CreateCalls : CreateData(t, c) /\ UNCHANGED prog
  \/ \E t \in Threads, c \in GetCalls : GetData(t, c) /\ UNCHANGED prog
  \/ \E t \in Threads, c \in IncrCalls : IncrReferenceCount(t, c) /\ UNCHANGED prog
  \/ \E t \in Threads, c \in DecrCalls : DecrReferenceCount(t, c) /\ UNCHANGED prog
  \/ \E t \in Threads, c \in SetCalls : SetReferenceCount(t, c) /\ UNCHANGED prog
  \/ \E t \in Threads, c \in GetRefCalls : GetReferenceCount(t, c) /\ UNCHANGED prog
  \/ \E t \in Threads, c \in FreeCalls : FreeData(t, c) /\ UNCHANGED prog
  \/ \E t \in Threads, m \in MemTypes : TBStart(t, m) /\ UNCHANGED prog
  \/ \E t \in Threads : TBStep(t) /\ UNCHANGED prog
  \/ \E t \in Threads : TBReturn(t) /\ UNCHANGED prog

Spec == Init /\ [][Next]_vars

\* ---- the operations that take the mutex, on their own ----
NextLocked ==
  \/ \E t \in Threads : Begin(t) /\ UNCHANGED prog
  \/ \E t \in Threads, c \in CreateCalls : CreateData(t, c) /\ UNCHANGED prog
  \/ \E t \in Threads, c \in GetCalls : GetData(t, c) /\ UNCHANGED prog
  \/ \E t \in Threads, c \in IncrCalls : IncrReferenceCount(t, c) /\ UNCHANGED prog
  \/ \E t \in Threads, c \in DecrCalls : DecrReferenceCount(t, c) /\ UNCHANGED prog
  \/ \E t \in Threads, c \in SetCalls : SetReferenceCount(t, c) /\ UNCHANGED prog
  \/ \E t \in Threads, c \in GetRefCalls : GetReferenceCount(t, c) /\ UNCHANGED prog
  \/ \E t \in Threads, c \in FreeCalls : FreeData(t, c) /\ UNCHANGED prog

SpecLocked == Init /\ [][NextLocked]_vars


\* ---- the scenario of owner threads: thread t creates id t, then adjusts its count ----
InitThreads ==
  /\ InitStore
  /\ prog = [t \in Threads |-> [stage |-> "create", expected |-> 0, left |-> MaxOps]]

ThreadBegin(t) ==
  /\ prog[t].stage = "create" \/ prog[t].left > 0
  /\ Begin(t)
  /\ UNCHANGED prog

ThreadCreate(t, c) ==
  /\ prog[t].stage = "create"
  /\ c.id = t
  /\ CreateData(t, c)
  /\ prog' = [prog EXCEPT ![t] = [stage |-> "adjust", expected |-> c.rc, left |-> MaxOps]]

ThreadIncr(t, c) ==
  /\ prog[t].stage = "adjust" /\ prog[t].left > 0
  /\ c.id = t
  /\ IncrReferenceCount(t, c)
  /\ prog' = [prog EXCEPT ![t].expected = @ + c.amount, ![t].left = @ - 1]

ThreadDecr(t, c) ==
  /\ prog[t].stage = "adjust" /\ prog[t].left > 0
  /\ c.id = t
  /\ DecrReferenceCount(t, c)
  /\ prog' = [prog EXCEPT ![t].expected = @ - c.amount, ![t].left = @ - 1]

NextThreads ==
  \/ \E t \in Threads : ThreadBegin(t)
  \/ \E t \in Threads, c \in CreateCalls : ThreadCreate(t, c)
  \/ \E t \in Threads, c \in IncrCalls : ThreadIncr(t, c)
  \/ \E t \in Threads, c \in DecrCalls : ThreadDecr(t, c)

SpecThreads == InitThreads /\ [][NextThreads]_vars

\* ---- ~DataStore: the store destroyed once no caller is inside it ----
\* (mutant) only the host buffers freed
DestructorHeap_HostOnly(states) ==
  [p \in 1..Len(heap) |->
     LET n == Cardinality({id \in DOMAIN states : states[id].data_ptrs[CPU] = p})
     IN  IF n = 0 THEN heap[p]
         ELSE [len |-> 0, data |-> <<>>, frees |-> heap[p].frees + n]]

\* for (auto& i : data_states_): free(host pointer) if set, cudaFree(device pointer)
\* if set (HAS_CUDA builds); a pointer is freed once for every slot that holds it.
DestructorHeap(states) ==
  [p \in 1..Len(heap) |->
     LET n == Cardinality({x \in (DOMAIN states) \X MemTypes :
                             /\ states[x[1]].data_ptrs[x[2]] = p
                             /\ (x[2] = GPU => HAS_CUDA)})
     IN  IF n = 0 THEN heap[p]
         ELSE [len |-> 0, data |-> <<>>, frees |-> heap[p].frees + n]]

\* the body frees the buffers; the table itself goes with the object's members.
Destructor ==
  /\ ~aborted
  /\ \A t \in Threads : pc[t] = "idle"
  /\ heap' = DestructorHeap(data_states_)
  /\ data_states_' = EmptyTable
  /\ pc' = [t \in Threads |-> "destroyed"]
  /\ last' = [call |-> Call("~DataStore", 0, CPU, 0, 0, 0), outcome |-> "return",
              val |-> "void", pre |-> data_states_, raced |-> FALSE]
  /\ UNCHANGED <<access_mutex_, tb, aborted, HAS_CUDA>>

\* ---- the locked operations over the store's whole life, destruction included ----
NextLifetime ==
  \/ \E t \in Threads : Begin(t) /\ UNCHANGED prog
  \/ \E t \in Threads, c \in CreateCalls : CreateData(t, c) /\ UNCHANGED prog
  \/ \E t \in Threads, c \in GetCalls : GetData(t, c) /\ UNCHANGED prog
  \/ \E t \in Threads, c \in IncrCalls : IncrReferenceCount(t, c) /\ UNCHANGED prog
  \/ \E t \in Threads, c \in DecrCalls : DecrReferenceCount(t, c) /\ UNCHANGED prog
  \/ \E t \in Threads, c \in SetCalls : SetReferenceCount(t, c) /\ UNCHANGED prog
  \/ \E t \in Threads, c \in GetRefCalls : GetReferenceCount(t, c) /\ UNCHANGED prog
  \/ \E t \in Threads, c \in FreeCalls : FreeData(t, c) /\ UNCHANGED prog
  \/ Destructor /\ UNCHANGED prog

SpecLifetime == Init /\ [][NextLifetime]_vars


(***************************************************************************)
(* The claims.  `last` is the operation that has just finished, last.pre   *)
(* the table it started from, and the other variables the state it left.   *)
(***************************************************************************)
Finished(op) == last.outcome # "none" /\ last.call.op = op
Returned(op) == last.outcome = "return" /\ last.call.op = op
PreLive == last.call.id \in DOMAIN last.pre
Released(ds) == \A m \in MemTypes : ds.data_ptrs[m] # NULL => heap[ds.data_ptrs[m]].frees = 1

\* C1: for a live id, DecrReferenceCount(id, k) returns true exactly when it brings the
\* count to 0; otherwise it returns false and leaves the count at old - k.  After true
\* the id is absent, GetData and GetReferenceCount on it abort, and an absent id
\* becomes present again only through CreateData on it.
C1_DecrReturnsTrueIffZero ==
  /\ (Returned("DecrReferenceCount") /\ PreLive) =>
       LET id  == last.call.id
           new == last.pre[id].reference_count - last.call.amount
       IN  /\ (last.val = TRUE) <=> (new = 0)
           /\ last.val = FALSE =>
                id \in DOMAIN data_states_ /\ data_states_[id].reference_count = new
           /\ last.val = TRUE =>
                /\ id \notin DOMAIN data_states_
                /\ GetReferenceCountAborts(id)
                /\ \A m \in MemTypes : GetDataAborts(id, m)
  /\ last.outcome # "none" =>
       \A id \in (DOMAIN data_states_) \ (DOMAIN last.pre) :
         last.call.op = "CreateData" /\ last.call.id = id

C1_Witness ==
  /\ Returned("DecrReferenceCount") /\ PreLive
  /\ last.val = TRUE
  /\ last.pre[last.call.id].reference_count = 1 /\ last.call.amount = 1
  /\ last.pre[last.call.id].data_ptrs[CPU] # NULL
  /\ last.call.id \notin DOMAIN data_states_

\* C2: on an id that is not in the table, GetData, IncrReferenceCount,
\* DecrReferenceCount, SetReferenceCount, GetReferenceCount and FreeData abort, and the
\* table is left as it was (no record is inserted).
C2_AbsentIdAborts ==
  ( /\ last.outcome # "none"
    /\ last.call.op \in {"GetData", "IncrReferenceCount", "DecrReferenceCount",
                         "SetReferenceCount", "GetReferenceCount", "FreeData"}
    /\ ~PreLive )
  => last.outcome = "abort" /\ data_states_ = last.pre

C2_Witness ==
  /\ Finished("GetData") /\ ~PreLive
  /\ last.outcome = "abort"
  /\ Len(heap) > 0 /\ heap[1].frees = 1
  /\ DOMAIN data_states_ # {}

\* C3: once CreateData(id, space, ...) has returned and the id has not been reclaimed,
\* CreateData on the same (id, space) aborts, for every length including 0.
C3_SecondCreateAborts ==
  Returned("CreateData") =>
    \A n \in Lengths : CreateDataAborts(last.call.id, last.call.type, n)

\* C4: if the id holds a residency allocated with n1 elements, CreateData for another
\* space with a length n2 # n1 aborts, also when n1 = 0.
C4_LengthMismatchAborts ==
  ( /\ Finished("CreateData") /\ PreLive
    /\ \E m \in MemTypes \ {last.call.type} :
         /\ last.pre[last.call.id].data_ptrs[m] # NULL
         /\ heap[last.pre[last.call.id].data_ptrs[m]].len # last.call.length )
  => last.outcome = "abort"

\* C5: a CreateData that returns leaves the record's reference count at exactly the rc
\* passed, whatever the count was before.
C5_CreateSetsCount ==
  Returned("CreateData") =>
    /\ last.call.id \in DOMAIN data_states_
    /\ data_states_[last.call.id].reference_count = last.call.rc

C5_Witness ==
  /\ Returned("CreateData") /\ PreLive
  /\ \E m \in MemTypes : last.pre[last.call.id].data_ptrs[m] # NULL
  /\ data_states_[last.call.id].data_ptrs[last.call.type] # NULL
  /\ last.pre[last.call.id].reference_count = 1
  /\ last.call.rc = 1

\* C6: after CreateData(id, Host, n, rc) on an absent id has returned, GetData(id, Host)
\* does not abort and its buffer is the one just allocated: n elements, all zero.
C6_CreateThenGet ==
  (Returned("CreateData") /\ last.call.type = CPU /\ ~PreLive) =>
    /\ ~GetDataAborts(last.call.id, CPU)
    /\ LET p == data_states_[last.call.id].data_ptrs[CPU]
       IN  /\ p = Len(heap)
           /\ heap[p].frees = 0
           /\ heap[p].len = last.call.length
           /\ Len(heap[p].data) = last.call.length
           /\ \A i \in 1..last.call.length : heap[p].data[i] = 0

RECURSIVE AllocatedBytes(_, _)
AllocatedBytes(S, m) ==
  IF S = {} THEN 0
  ELSE LET i == CHOOSE j \in S : TRUE
           p == data_states_[i].data_ptrs[m]
       IN  (IF p # NULL THEN heap[p].len * 4 ELSE 0) + AllocatedBytes(S \ {i}, m)

C9_TotalBytes ==
  (Returned("GetTotalBytes") /\ ~last.raced) =>
    last.val = AllocatedBytes(DOMAIN data_states_, last.call.type)

\* C10: threads that each create their own id and then increment and decrement only
\* its count never deadlock (while an operation is pending and the process is alive,
\* some step is possible), and each id's count is its initial count plus the sum of
\* its owner's adjustments; an id whose sum came to 0 is gone.
C10_OwnCounts ==
  /\ \A t \in Threads :
       (~aborted /\ prog[t].stage = "adjust") =>
         IF t \in DOMAIN data_states_
         THEN data_states_[t].reference_count = prog[t].expected
         ELSE prog[t].expected = 0
  /\ (~aborted /\ \E t \in Threads :
                     pc[t] = "cs" \/ prog[t].stage = "create" \/ prog[t].left > 0)
       => ENABLED NextThreads

C10_Witness ==
  /\ ~aborted
  /\ \A t \in Threads :
       /\ prog[t].stage = "adjust" /\ prog[t].left = 0 /\ pc[t] = "idle"
       /\ t \in DOMAIN data_states_
  /\ data_states_[1].reference_count # data_states_[2].reference_count

\* C11: in a build without HAS_CUDA every operation that names the device space aborts:
\* CreateData(id, GPU, ...), GetData(id, GPU) and GetTotalBytes(GPU).
C11_DeviceOpsAbort ==
  ( /\ ~HAS_CUDA
    /\ last.outcome # "none"
    /\ last.call.op \in {"CreateData", "GetData", "GetTotalBytes"}
    /\ last.call.type = GPU )
  => last.outcome = "abort"

\* C12: a CreateData for the host space whose allocation yields no buffer does not
\* return: no returned CreateData leaves the record with its host slot empty.
C12_HostAllocFailureFatal ==
  (Returned("CreateData") /\ last.call.type = CPU) =>
    /\ last.call.id \in DOMAIN data_states_
    /\ data_states_[last.call.id].data_ptrs[CPU] # NULL

\* C13: between operations no record of the table has a reference count of 0,
\* whatever initial count CreateData was given.
C13_NoZeroCount ==
  (~aborted /\ access_mutex_ = NoThread) =>
    \A id \in DOMAIN data_states_ : data_states_[id].reference_count # 0

\* C14: no record ever has a negative reference count, and DecrReferenceCount aborts
\* when the amount exceeds the count (IncrReferenceCount likewise, with -amount).
C14_CountNeverNegative ==
  /\ ~aborted => \A id \in DOMAIN data_states_ : data_states_[id].reference_count >= 0
  /\ (Finished("DecrReferenceCount") /\ PreLive
        /\ last.call.amount > last.pre[last.call.id].reference_count)
       => last.outcome = "abort"
  /\ (Finished("IncrReferenceCount") /\ PreLive
        /\ -last.call.amount > last.pre[last.call.id].reference_count)
       => last.outcome = "abort"

\* C16: every residency of a live id was allocated with the element count that the
\* record holds as its length.
C16_EqualLengths ==
  ~aborted =>
    \A id \in DOMAIN data_states_ : \A m \in MemTypes :
      data_states_[id].data_ptrs[m] # NULL =>
        heap[data_states_[id].data_ptrs[m]].len = data_states_[id].length

\* C15: reclamation is all-or-nothing.  No record of the table ever holds a released
\* buffer; an operation that reclaims an id (a decrement, increment or set that
\* returns true, or FreeData) leaves the id unknown with every buffer it held
\* released; and an unknown id can be created again, with any length and count, as a
\* fresh record that holds nothing but the new residency.
Reclaimed ==
  \/ Returned("FreeData")
  \/ /\ last.outcome = "return"
     /\ last.call.op \in {"DecrReferenceCount", "IncrReferenceCount", "SetReferenceCount"}
     /\ last.val = TRUE

C15_ReclaimAllOrNothing ==
  /\ \A id \in DOMAIN data_states_ : \A m \in MemTypes :
       data_states_[id].data_ptrs[m] # NULL => heap[data_states_[id].data_ptrs[m]].frees = 0
  /\ Reclaimed =>
       /\ last.call.id \notin DOMAIN data_states_
       /\ Released(last.pre[last.call.id])
  /\ \A id \in Ids \ DOMAIN data_states_ : \A n \in Lengths :
       /\ ~CreateDataAborts(id, CPU, n)
       /\ HAS_CUDA => ~CreateDataAborts(id, GPU, n)
  /\ (Returned("CreateData") /\ ~PreLive) =>
       /\ data_states_[last.call.id].length = last.call.length
       /\ data_states_[last.call.id].reference_count = last.call.rc
       /\ \A m \in MemTypes \ {last.call.type} :
            data_states_[last.call.id].data_ptrs[m] = NULL

\* a count reaching zero reclaims an id that holds both residencies
C15_Witness ==
  /\ Returned("DecrReferenceCount") /\ PreLive
  /\ last.val = TRUE
  /\ \A m \in MemTypes : last.pre[last.call.id].data_ptrs[m] # NULL
  /\ last.call.id \notin DOMAIN data_states_

\* C17: at most one thread is inside the body of a locked operation, and a thread is
\* inside a body exactly while it holds the mutex.
C17_MutualExclusion ==
  /\ Cardinality({t \in Threads : pc[t] = "cs"}) <= 1
  /\ \A t \in Threads : pc[t] = "cs" <=> access_mutex_ = t

\* one thread inside a body over a non-empty table while another is outside
C17_Witness ==
  \E t \in Threads :
    /\ pc[t] = "cs" /\ access_mutex_ = t
    /\ DOMAIN data_states_ # {}
    /\ \E u \in Threads \ {t} : pc[u] = "idle"

\* C18: GetTotalBytes excludes the operations that write the table: no record is
\* inserted, modified or erased between its first and its last read, so that the
\* total it returns is the total of one table state.
C18_TotalBytesExclusive ==
  /\ \A t \in Threads : pc[t] = "tb" => ~tb[t].raced
  /\ Returned("GetTotalBytes") => ~last.raced

\* C19: every allocated buffer is released exactly once by the time the store is
\* destroyed.  No buffer is ever released twice; a buffer not yet released is held by
\* exactly one slot of the table and a released one by none; and after the destructor
\* every buffer has been released once.
Holders(p) ==
  {x \in (DOMAIN data_states_) \X MemTypes : data_states_[x[1]].data_ptrs[x[2]] = p}

C19_ReleasedOnce ==
  /\ \A p \in 1..Len(heap) :
       /\ heap[p].frees <= 1
       /\ heap[p].frees = 1 => Holders(p) = {}
       /\ (heap[p].frees = 0 /\ ~Returned("~DataStore")) => Cardinality(Holders(p)) = 1
  /\ Returned("~DataStore") => \A p \in 1..Len(heap) : heap[p].frees = 1

\* the destructor releases one residency after a reclamation released another
C19_Witness ==
  /\ Returned("~DataStore")
  /\ Len(heap) = 2
  /\ \E id \in DOMAIN last.pre : last.pre[id].data_ptrs[GPU] = 2
  /\ \A id \in DOMAIN last.pre : \A m \in MemTypes : last.pre[id].data_ptrs[m] # 1

\* C20: a step of an operation on id A leaves the record of every other id as it was
\* (present or not, length, count, slots), and a step of GetData, GetReferenceCount or
\* GetTotalBytes leaves the whole table as it was.
IdOps ==
  {"CreateData", "GetData", "IncrReferenceCount", "DecrReferenceCount",
   "SetReferenceCount", "GetReferenceCount", "FreeData"}

SameRecord(B) ==
  /\ B \in DOMAIN data_states_ <=> B \in DOMAIN data_states_'
  /\ B \in DOMAIN data_states_ => data_states_'[B] = data_states_[B]

C20_FrameStep ==
  /\ last'.call.op \in IdOps => \A B \in Ids \ {last'.call.id} : SameRecord(B)
  /\ last'.call.op \in {"GetData", "GetReferenceCount", "GetTotalBytes", "none"}
       => data_states_' = data_states_

C20_Frame == [][C20_FrameStep]_vars

\* FreeData reclaims an id while another id holds a host residency
C20_Witness ==
  /\ Returned("FreeData") /\ PreLive
  /\ \E B \in DOMAIN data_states_ :
       B # last.call.id /\ data_states_[B].data_ptrs[CPU] # NULL

====
